---- MODULE Spec2Model ----
(***************************************************************************)
(* SaaS landing backend (src/main.py): registration and login over the     *)
(* "user" collection, contact-message intake, and the blog listing with    *)
(* its seed-on-empty fallback, as request handlers running over a shared   *)
(* document store.                                                         *)
(*                                                                         *)
(* A handler is cut into steps at its store calls: the store is atomic per *)
(* single operation, and nothing else is (no lock, no transaction), so two *)
(* requests interleave exactly between store calls.  register is           *)
(* find_one ; insert, list_blog is read ; insert x3 ; read, login and      *)
(* create_contact are one store call each.                                 *)
(*                                                                         *)
(* Strings that the code transforms character by character (e-mail         *)
(* addresses, lowercased) are tuples of one-character strings; the others  *)
(* are TLA+ strings.  An Optional value is <<>> (None) or <<v>>.           *)
(***************************************************************************)
EXTENDS Naturals, Sequences, FiniteSets, TLC

\* ------------------------------------------------------------- bounds
MaxContacts == 1
NSalts == 1

\* -------------------------------------------------- program constants
MinPasswordLen == 6
MinMessageLen == 5
BlogLimit == 50

\* Two request slots: two requests at most are in flight together.
Procs == {1, 2}

VARIABLES
    dbNone,    \* "db is None": the store was not initialised at import time
    coll,      \* db[...]: collection name -> documents in store-native order
    pc,        \* per request slot: where its handler stands
    req,       \* per request slot: the request being (or last) handled
    resp,      \* per request slot: the response of the last finished request
    user,      \* login's local `user`: what find_one returned (Optional)
    i          \* list_blog's position in `for d in demos`

vars == <<dbNone, coll, pc, req, resp, user, i>>

\* ------------------------------------------------------------- inputs
\* What the callers send.  Ann and Bob give addresses that differ by case
\* only; "short" is under the password minimum and "hey!" under the message
\* minimum; nobody's password is "hunter2".
RegisterRequests ==
    { [name |-> "Ann", email |-> <<"a", "@", "x">>, password |-> "secret"],
      [name |-> "Bob", email |-> <<"A", "@", "x">>, password |-> "secret"],
      [name |-> "Bob", email |-> <<"A", "@", "x">>, password |-> "short"] }
LoginRequests ==
    { [email |-> <<"A", "@", "x">>, password |-> "secret"],
      [email |-> <<"a", "@", "x">>, password |-> "hunter2"] }
ContactRequests ==
    { [name |-> "Ann", email |-> <<"A", "@", "x">>, message |-> "hello"],
      [name |-> "Ann", email |-> <<"A", "@", "x">>, message |-> "hey!"] }

\* ------------------------------------------------------------ helpers
None == <<>>
Some(v) == <<v>>

LowerChar(c) ==
    CASE c = "A" -> "a"
      [] c = "B" -> "b"
      [] c = "X" -> "x"
      [] OTHER -> c

\* str.lower()
lower(s) == [k \in DOMAIN s |-> LowerChar(s[k])]

\* str(ObjectId)
StrOid(n) == "oid" \o ToString(n)

\* the salts the hasher may draw
Salts == 1..NSalts

\* pwd_context.hash: a salted digest, the salt kept in the hash
hash_password_with(password, salt) ==
    [scheme |-> "bcrypt", salt |-> salt, digest |-> <<salt, password>>]

\* pwd_context.verify: recompute the digest under the hash's own salt
verify_password(password, hashed) ==
    hashed.digest = <<hashed.salt, password>>

\* collection.find_one({"email": email}): the first match, or None
find_one_by_email(docs, email) ==
    LET hits == {k \in DOMAIN docs : docs[k].email = email}
    IN  IF hits = {} THEN None
        ELSE Some(docs[CHOOSE k \in hits : \A m \in hits : k <= m])

\* The _id the store gives the next document of collection c: unique within
\* the collection (nothing is ever deleted, so its length numbers it).
nextOid(c) == Len(coll[c]) + 1

\* database.create_document: insert doc with a fresh _id
Inserted(c, doc) ==
    [coll EXCEPT ![c] = Append(@, [_id |-> nextOid(c)] @@ doc)]

\* database.get_documents(collection, {}, limit)
get_documents(c, limit) ==
    IF Len(coll[c]) <= limit THEN coll[c] ELSE SubSeq(coll[c], 1, limit)

\* ---------------------------------------------------------- responses
NoReq == [op |-> "none"]
NoResp == [status |-> 0, detail |-> "", body |-> <<>>]
Ok(body) == [status |-> 200, detail |-> "", body |-> body]
HTTPException(status, detail) == [status |-> status, detail |-> detail, body |-> <<>>]
ValidationError == HTTPException(422, "Unprocessable Entity")
DbNotConfigured == HTTPException(500, "Database not configured")
AuthResponse(id, name, email) == <<[id |-> id, name |-> name, email |-> email]>>

InternalServerError == HTTPException(500, "Internal Server Error")

\* ------------------------------------------------- request validation
\* RegisterRequest: password: str = Field(min_length=6)
ValidRegister(name, email, password) == Len(password) >= MinPasswordLen

\* ContactRequest: message: str = Field(min_length=5)
ValidContact(name, email, message) == Len(message) >= MinMessageLen

\* --------------------------------------------------------------- blog
demos ==
    << [title |-> "Announcing Cardify: The Modern Fintech Toolkit",
        slug |-> "announcing-cardify",
        excerpt |-> "We built a developer-first toolkit to help you launch card products faster.",
        content |-> "Cardify helps teams design, test, and launch card experiences with built-in compliance.",
        author |-> "Team Cardify",
        tags |-> <<"announcement", "fintech">>],
       [title |-> "Designing with Glassmorphism in Real Products",
        slug |-> "glassmorphism-design",
        excerpt |-> "Practical tips for using glassmorphism without sacrificing accessibility.",
        content |-> "We cover contrast, motion, and depth to make glassmorphic UIs usable.",
        author |-> "Maya Lee",
        tags |-> <<"design", "ux">>],
       [title |-> "From Prototype to Production: Our Infrastructure Stack",
        slug |-> "infra-stack",
        excerpt |-> "How we ship fast while staying compliant.",
        content |-> "A look at our APIs, data pipelines, and monitoring choices.",
        author |-> "Dev Team",
        tags |-> <<"engineering">>] >>

\* dict.get(key, default)
Get(p, key, default) == IF key \in DOMAIN p THEN p[key] ELSE default

\* dict.get(key): None when the key is missing
GetOpt(p, key) == IF key \in DOMAIN p THEN Some(p[key]) ELSE None

\* (mutant) the fallback slug is the literal default, not the identity
BlogItemSlugPost(p) ==
    [title |-> Get(p, "title", "Untitled"),
     slug |-> Get(p, "slug", "post"),
     excerpt |-> GetOpt(p, "excerpt"),
     content |-> Get(p, "content", ""),
     author |-> GetOpt(p, "author"),
     tags |-> GetOpt(p, "tags")]

\* BlogItem(title=p.get("title", "Untitled"), slug=p.get("slug", str(p.get("_id", "post"))), ...)
BlogItem(p) ==
    [title |-> Get(p, "title", "Untitled"),
     slug |-> IF "slug" \in DOMAIN p THEN p["slug"]
              ELSE IF "_id" \in DOMAIN p THEN StrOid(p["_id"]) ELSE "post",
     excerpt |-> GetOpt(p, "excerpt"),
     content |-> Get(p, "content", ""),
     author |-> GetOpt(p, "author"),
     tags |-> GetOpt(p, "tags")]

\* normalized = [BlogItem(...) for p in posts]
normalized(posts) == [k \in DOMAIN posts |-> BlogItem(posts[k])]

\* (mutant) the listing seeds without testing for emptiness
NeedsSeedingAlways(posts) == TRUE

\* `if not posts`: the seeding test of list_blog
NeedsSeeding(posts) == Len(posts) = 0

\* A blogpost collection written by the admin path before this run: more
\* documents than one listing returns, the first of them missing fields.
ExistingPost(k) ==
    LET full == [_id |-> k, title |-> "Post", slug |-> "post-" \o ToString(k),
                 excerpt |-> "An excerpt", content |-> "Body", author |-> "Ann",
                 tags |-> <<"news">>]
        keep == CASE k = 1 -> DOMAIN full \ {"title"}
                  [] k = 2 -> DOMAIN full \ {"slug"}
                  [] k = 3 -> DOMAIN full \ {"content"}
                  [] k = 4 -> DOMAIN full \ {"excerpt", "author", "tags"}
                  [] k = 5 -> {"_id"}
                  [] OTHER -> DOMAIN full
    IN  [f \in keep |-> full[f]]

ExistingPosts == [k \in 1..(BlogLimit + 1) |-> ExistingPost(k)]

\* ------------------------------------------------------------ account
\* user_doc = {"name": ..., "email": str(payload.email).lower(), "password_hash": ..., "is_active": True}
user_doc(name, email, password, salt) ==
    [name |-> name,
     email |-> lower(email),
     password_hash |-> hash_password_with(password, salt),
     is_active |-> TRUE]

\* (mutant) the duplicate check looks the address up as typed
register_existing_raw(email) == find_one_by_email(coll["user"], email)

\* existing = db["user"].find_one({"email": str(payload.email).lower()})
register_existing(email) == find_one_by_email(coll["user"], lower(email))

\* (mutant) login looks the address up as typed
login_user_raw(email) == find_one_by_email(coll["user"], email)

\* user = db["user"].find_one({"email": str(payload.email).lower()})
login_user(email) == find_one_by_email(coll["user"], lower(email))

\* (mutant) a missing account is reported as such
login_response_leaky(u, password) ==
    IF u = None THEN HTTPException(400, "No account with this email")
    ELSE IF ~verify_password(password, u[1].password_hash)
         THEN HTTPException(400, "Invalid email or password")
    ELSE Ok(AuthResponse(StrOid(u[1]._id), u[1].name, u[1].email))

\* login, from `if not user` to its return
login_response(u, password) ==
    IF u = None THEN HTTPException(400, "Invalid email or password")
    ELSE IF ~verify_password(password, u[1].password_hash)
         THEN HTTPException(400, "Invalid email or password")
    ELSE Ok(AuthResponse(StrOid(u[1]._id), u[1].name, u[1].email))

\* ---------------------------------------------------------------- Init
Collections == {"user", "blogpost", "contactmessage"}

Init ==
    /\ dbNone \in BOOLEAN
    /\ \E blog \in {<<>>, ExistingPosts} :
         coll = [c \in Collections |->
                   IF c = "blogpost" /\ ~dbNone THEN blog ELSE <<>>]
    /\ pc = [p \in Procs |-> "idle"]
    /\ req = [p \in Procs |-> NoReq]
    /\ resp = [p \in Procs |-> NoResp]
    /\ user = [p \in Procs |-> None]
    /\ i = [p \in Procs |-> 0]

\* ------------------------------------------------------------ handlers
Finish(p, r) ==
    /\ resp' = [resp EXCEPT ![p] = r]
    /\ pc' = [pc EXCEPT ![p] = "idle"]

\* register, up to the duplicate check
Register(p, name, email, password) ==
    /\ pc[p] = "idle"
    /\ req' = [req EXCEPT ![p] = [op |-> "register", name |-> name,
                                  email |-> email, password |-> password]]
    /\ IF ~ValidRegister(name, email, password) THEN Finish(p, ValidationError)
       ELSE IF dbNone THEN Finish(p, DbNotConfigured)
       ELSE IF register_existing(email) # None
            THEN Finish(p, HTTPException(400, "Email already registered"))
       ELSE /\ resp' = [resp EXCEPT ![p] = NoResp]
            /\ pc' = [pc EXCEPT ![p] = "reg_insert"]
    /\ UNCHANGED <<dbNone, coll, user, i>>

\* (mutant) the insert is refused when the email is taken by then
RegisterInsertIfAbsent(p) ==
    /\ pc[p] = "reg_insert"
    /\ IF register_existing(req[p].email) # None
       THEN /\ Finish(p, HTTPException(400, "Email already registered"))
            /\ coll' = coll
       ELSE \E salt \in Salts :
              LET doc == user_doc(req[p].name, req[p].email, req[p].password, salt)
              IN  /\ coll' = Inserted("user", doc)
                  /\ Finish(p, Ok(AuthResponse(StrOid(nextOid("user")), doc.name, doc.email)))
    /\ UNCHANGED <<dbNone, req, user, i>>

\* register, from user_doc to its return
RegisterInsert(p) ==
    /\ pc[p] = "reg_insert"
    /\ \E salt \in Salts :
         LET doc == user_doc(req[p].name, req[p].email, req[p].password, salt)
         IN  /\ coll' = Inserted("user", doc)
             /\ Finish(p, Ok(AuthResponse(StrOid(nextOid("user")), doc.name, doc.email)))
    /\ UNCHANGED <<dbNone, req, user, i>>

\* (mutant) a successful login stamps the account
LoginStamping(p, email, password) ==
    /\ pc[p] = "idle"
    /\ req' = [req EXCEPT ![p] = [op |-> "login", email |-> email,
                                  password |-> password]]
    /\ IF dbNone
       THEN /\ Finish(p, DbNotConfigured)
            /\ user' = [user EXCEPT ![p] = None]
            /\ coll' = coll
       ELSE /\ Finish(p, login_response(login_user(email), password))
            /\ user' = [user EXCEPT ![p] = login_user(email)]
            /\ coll' = [coll EXCEPT !["user"] =
                         [k \in DOMAIN @ |->
                            IF login_user(email) = Some(@[k])
                            THEN [@[k] EXCEPT !.is_active = FALSE] ELSE @[k]]]
    /\ UNCHANGED <<dbNone, i>>

Login(p, email, password) ==
    /\ pc[p] = "idle"
    /\ req' = [req EXCEPT ![p] = [op |-> "login", email |-> email,
                                  password |-> password]]
    /\ IF dbNone
       THEN /\ Finish(p, DbNotConfigured)
            /\ user' = [user EXCEPT ![p] = None]
       ELSE /\ Finish(p, login_response(login_user(email), password))
            /\ user' = [user EXCEPT ![p] = login_user(email)]
    /\ UNCHANGED <<dbNone, coll, i>>

create_contact(p, name, email, message) ==
    /\ pc[p] = "idle"
    /\ Len(coll["contactmessage"]) < MaxContacts
    /\ req' = [req EXCEPT ![p] = [op |-> "contact", name |-> name,
                                  email |-> email, message |-> message]]
    /\ IF ~ValidContact(name, email, message)
       THEN Finish(p, ValidationError) /\ coll' = coll
       ELSE IF dbNone
       THEN Finish(p, DbNotConfigured) /\ coll' = coll
       ELSE /\ coll' = Inserted("contactmessage",
                         [name |-> name, email |-> email, message |-> message])
            /\ Finish(p, Ok(<<[status |-> "ok", id |-> StrOid(nextOid("contactmessage"))]>>))
    /\ UNCHANGED <<dbNone, user, i>>

\* (mutant) list_blog without its `db is None` test: the read raises
list_blog_unguarded(p) ==
    /\ pc[p] = "idle"
    /\ req' = [req EXCEPT ![p] = [op |-> "list"]]
    /\ IF dbNone THEN Finish(p, InternalServerError) /\ i' = i
       ELSE LET posts == get_documents("blogpost", BlogLimit)
            IN  IF NeedsSeeding(posts)
                THEN /\ resp' = [resp EXCEPT ![p] = NoResp]
                     /\ pc' = [pc EXCEPT ![p] = "seed"]
                     /\ i' = [i EXCEPT ![p] = 1]
                ELSE Finish(p, Ok(normalized(posts))) /\ i' = i
    /\ UNCHANGED <<dbNone, coll, user>>

\* list_blog, up to `if not posts`; a non-empty read goes straight to the return
list_blog(p) ==
    /\ pc[p] = "idle"
    /\ req' = [req EXCEPT ![p] = [op |-> "list"]]
    /\ IF dbNone THEN Finish(p, DbNotConfigured) /\ i' = i
       ELSE LET posts == get_documents("blogpost", BlogLimit)
            IN  IF NeedsSeeding(posts)
                THEN /\ resp' = [resp EXCEPT ![p] = NoResp]
                     /\ pc' = [pc EXCEPT ![p] = "seed"]
                     /\ i' = [i EXCEPT ![p] = 1]
                ELSE Finish(p, Ok(normalized(posts))) /\ i' = i
    /\ UNCHANGED <<dbNone, coll, user>>

\* (mutant) a demo post whose slug is already stored is not inserted again
SeedUpsert(p) ==
    /\ pc[p] = "seed"
    /\ coll' = IF \E k \in DOMAIN coll["blogpost"] :
                     coll["blogpost"][k].slug = demos[i[p]].slug
               THEN coll
               ELSE Inserted("blogpost", demos[i[p]])
    /\ IF i[p] = Len(demos)
       THEN /\ pc' = [pc EXCEPT ![p] = "reread"]
            /\ i' = [i EXCEPT ![p] = 0]
       ELSE /\ pc' = pc
            /\ i' = [i EXCEPT ![p] = @ + 1]
    /\ UNCHANGED <<dbNone, req, resp, user>>

\* one round of `for d in demos: create_document("blogpost", d)`
Seed(p) ==
    /\ pc[p] = "seed"
    /\ coll' = Inserted("blogpost", demos[i[p]])
    /\ IF i[p] = Len(demos)
       THEN /\ pc' = [pc EXCEPT ![p] = "reread"]
            /\ i' = [i EXCEPT ![p] = 0]
       ELSE /\ pc' = pc
            /\ i' = [i EXCEPT ![p] = @ + 1]
    /\ UNCHANGED <<dbNone, req, resp, user>>

\* list_blog, from the second get_documents to its return
Reread(p) ==
    /\ pc[p] = "reread"
    /\ Finish(p, Ok(normalized(get_documents("blogpost", BlogLimit))))
    /\ UNCHANGED <<dbNone, coll, req, user, i>>

\* ------------------------------------------------------ specifications
\* Requests handled concurrently (a def handler runs in the thread pool).
Next ==
    \E p \in Procs :
        \/ \E r \in RegisterRequests : Register(p, r.name, r.email, r.password)
        \/ RegisterInsert(p)
        \/ \E r \in LoginRequests : Login(p, r.email, r.password)
        \/ \E r \in ContactRequests : create_contact(p, r.name, r.email, r.message)
        \/ list_blog(p)
        \/ Seed(p)
        \/ Reread(p)

Spec == Init /\ [][Next]_vars

\* Requests handled one after another: none starts while another is in flight.
Quiet == \A q \in Procs : pc[q] = "idle"

SeqNext ==
    \E p \in Procs :
        \/ Quiet /\ \E r \in RegisterRequests : Register(p, r.name, r.email, r.password)
        \/ RegisterInsert(p)
        \/ Quiet /\ \E r \in LoginRequests : Login(p, r.email, r.password)
        \/ Quiet /\ \E r \in ContactRequests : create_contact(p, r.name, r.email, r.message)
        \/ Quiet /\ list_blog(p)
        \/ Seed(p)
        \/ Reread(p)

SeqSpec == Init /\ [][SeqNext]_vars

\* The store call a handler is about to make raises: the exception leaves the
\* handler and the request ends as a server error.
StoreFailure(p) ==
    /\ pc[p] \in {"reg_insert", "seed", "reread"}
    /\ Finish(p, InternalServerError)
    /\ i' = [i EXCEPT ![p] = 0]
    /\ UNCHANGED <<dbNone, coll, req, user>>

\* The requests that pass validation, as the handlers record them.
ValidRequests ==
    {[op |-> "register"] @@ r : r \in {x \in RegisterRequests : ValidRegister(x.name, x.email, x.password)}}
    \cup {[op |-> "login"] @@ r : r \in LoginRequests}
    \cup {[op |-> "contact"] @@ r : r \in {x \in ContactRequests : ValidContact(x.name, x.email, x.message)}}
    \cup {[op |-> "list"]}

\* The first store call of a handler raises.
FailedCall(p, r) ==
    /\ pc[p] = "idle"
    /\ ~dbNone
    /\ req' = [req EXCEPT ![p] = r]
    /\ Finish(p, InternalServerError)
    /\ user' = [user EXCEPT ![p] = None]
    /\ UNCHANGED <<dbNone, coll, i>>

\* Requests handled one after another over a store whose calls may fail.
FaultNext ==
    \/ SeqNext
    \/ \E p \in Procs : StoreFailure(p)
    \/ \E p \in Procs : Quiet /\ \E r \in ValidRequests : FailedCall(p, r)

FaultSpec == Init /\ [][FaultNext]_vars

\* ================================================================ claims
users == coll["user"]
blogpost == coll["blogpost"]
contactmessage == coll["contactmessage"]

Registered(p) == req[p].op = "register" /\ resp[p].status = 200
LoginDone(p) == req[p].op = "login"
ListDone(p) == req[p].op = "list" /\ resp[p].status = 200

\* The accounts of the user collection that hold email e.
AccountsWith(e) == {k \in DOMAIN users : users[k].email = e}

\* C1 (as stated): once register(name, email, password) has answered with
\* identity i, every later login(email, password) answers 200 with the same
\* identity i, the registered name and the lowercased email.
C1_RegisterThenLogin ==
    [][\A q \in Procs, r \in LoginRequests :
          Login(q, r.email, r.password) =>
            \A p \in Procs :
              (Registered(p) /\ req[p].email = r.email /\ req[p].password = r.password)
                => resp'[q] = Ok(AuthResponse(resp[p].body[1].id, req[p].name, lower(r.email)))
      ]_vars

\* C1 (amended): the same, provided the account is the only one of the user
\* collection with that lowercased email (no register of the same email raced
\* with it).
C1_RegisterThenLoginUnraced ==
    [][\A q \in Procs, r \in LoginRequests :
          Login(q, r.email, r.password) =>
            \A p \in Procs :
              (/\ Registered(p) /\ req[p].email = r.email /\ req[p].password = r.password
               /\ Cardinality(AccountsWith(lower(r.email))) = 1)
                => resp'[q] = Ok(AuthResponse(resp[p].body[1].id, req[p].name, lower(r.email)))
      ]_vars

\* C1 witness: an address registered in upper case, then logged in with the
\* same credentials: same identity, registered name, lowercased address.
C1_Witness ==
    \E p, q \in Procs :
        /\ Registered(p) /\ LoginDone(q)
        /\ req[q].email = req[p].email /\ req[q].password = req[p].password
        /\ req[p].email # lower(req[p].email)
        /\ Cardinality(AccountsWith(lower(req[p].email))) = 1
        /\ resp[q] = Ok(AuthResponse(resp[p].body[1].id, req[p].name, lower(req[p].email)))

UniqueEmails ==
    \A a, b \in DOMAIN users : users[a].email = users[b].email => a = b

\* C2: with register calls handled one after another, a register whose
\* lowercased email is the email of a persisted account answers 400 "Email
\* already registered" and inserts nothing; the user collection never holds
\* two accounts with the same email.
C2_DuplicateEmailRejected ==
    /\ []UniqueEmails
    /\ [][\A p \in Procs, r \in RegisterRequests :
            (/\ Register(p, r.name, r.email, r.password)
             /\ ValidRegister(r.name, r.email, r.password)
             /\ \E k \in DOMAIN users : users[k].email = lower(r.email))
              => /\ resp'[p] = HTTPException(400, "Email already registered")
                 /\ pc'[p] = "idle"
                 /\ coll' = coll
        ]_vars

\* C2 witness: a register refused as a duplicate of an account whose address
\* it matches only after lowercasing.
C2_Witness ==
    \E p, q \in Procs :
        /\ Registered(q)
        /\ req[p].op = "register"
        /\ resp[p] = HTTPException(400, "Email already registered")
        /\ req[p].email # req[q].email
        /\ lower(req[p].email) = lower(req[q].email)
        /\ Len(users) = 1

InvalidCredentials == HTTPException(400, "Invalid email or password")

\* C3: a login that fails (the store being configured) answers 400 "Invalid
\* email or password", whether find_one found an account or not: two failed
\* logins have the same response.
C3_FailedLoginsAlike ==
    \A p, q \in Procs :
        (/\ ~dbNone
         /\ LoginDone(p) /\ resp[p].status # 200
         /\ LoginDone(q) /\ resp[q].status # 200)
          => resp[p] = InvalidCredentials /\ resp[p] = resp[q]

\* C3 witness: one login failed on an unknown address, another on a wrong
\* password for a known one.
C3_Witness ==
    \E p, q \in Procs :
        /\ LoginDone(p) /\ resp[p].status = 400 /\ user[p] = None
        /\ LoginDone(q) /\ resp[q].status = 400 /\ user[q] # None
        /\ ~verify_password(req[q].password, user[q][1].password_hash)

\* A document of the blogpost collection that is one of the demo posts.
IsDemo(d) == \E j \in DOMAIN demos : d = ([_id |-> d["_id"]] @@ demos[j])

\* The blogpost collection holds demo posts only: it was empty when the
\* first listing ran (the other initial collection holds none of them).
OnlyDemos == \A k \in DOMAIN blogpost : IsDemo(blogpost[k])

Slugs(items) == [k \in DOMAIN items |-> items[k].slug]

DemoSlugs == <<"announcing-cardify", "glassmorphism-design", "infra-stack">>

\* C4: with the store available and requests handled one after another over
\* an initially empty blogpost collection, every finished listing returns
\* exactly the 3 demo entries, slugs announcing-cardify,
\* glassmorphism-design, infra-stack, and between requests the collection
\* holds 0 or exactly 3 documents: the second listing returns the same 3
\* and inserts nothing.
C4_SeedOnce ==
    OnlyDemos =>
        /\ Quiet => Len(blogpost) \in {0, 3}
        /\ \A p \in Procs :
             ListDone(p) =>
                /\ Len(blogpost) = 3
                /\ Len(resp[p].body) = 3
                /\ Slugs(resp[p].body) = DemoSlugs
                /\ \A q \in Procs : ListDone(q) => resp[q].body = resp[p].body

\* C4 witness: two listings have finished over the seeded collection, the
\* later of them on a non-empty collection.
C4_Witness ==
    \E p, q \in Procs :
        /\ p # q /\ ListDone(p) /\ ListDone(q)
        /\ Slugs(resp[p].body) = DemoSlugs
        /\ resp[q].body = resp[p].body
        /\ Len(blogpost) = 3

\* C5 (as stated): no operation leaves a partial-failure state; in particular
\* after a listing that failed while seeding, the blogpost collection does
\* not hold only one or two of the three demo posts.
C5_NoPartialSeeding ==
    \A p \in Procs :
        (/\ Quiet /\ OnlyDemos
         /\ req[p].op = "list" /\ resp[p] = InternalServerError)
          => Len(blogpost) \in {0, 3}

\* Boundary validation of a request (the request models of main.py).
IsValid(r) ==
    CASE r.op = "register" -> ValidRegister(r.name, r.email, r.password)
      [] r.op = "contact" -> ValidContact(r.name, r.email, r.message)
      [] OTHER -> TRUE

\* C6: when db is None, every valid register, login, contact and listing
\* request ends at once with 500 "Database not configured": no handler gets
\* past its first test and no collection changes.
C6_StorageUnavailable ==
    dbNone =>
        /\ \A c \in Collections : coll[c] = <<>>
        /\ \A p \in Procs :
             /\ pc[p] = "idle"
             /\ (req[p].op # "none" /\ IsValid(req[p])) => resp[p] = DbNotConfigured

\* C6 witness: a register and a listing both refused for the missing store.
C6_Witness ==
    \E p, q \in Procs :
        /\ dbNone
        /\ req[p].op = "register" /\ resp[p] = DbNotConfigured
        /\ req[q].op = "list" /\ resp[q] = DbNotConfigured

\* C7: register's insert does not repeat the duplicate check.  A request
\* that passed the check inserts its account and answers 200 even when an
\* account with the same lowercased email was inserted in between, so under
\* concurrent registration the user collection can hold two accounts with
\* one email.
C7_CheckThenAct ==
    [][\A p \in Procs :
          (pc[p] = "reg_insert" /\ pc'[p] = "idle")
            => /\ Len(coll'["user"]) = Len(users) + 1
               /\ coll'["user"][Len(users) + 1].email = lower(req[p].email)
               /\ resp'[p].status = 200
               /\ Cardinality({k \in DOMAIN coll'["user"] :
                                 coll'["user"][k].email = lower(req[p].email)})
                    = Cardinality(AccountsWith(lower(req[p].email))) + 1
      ]_vars

\* C7 witness: two registers with the same lowercased email both answered
\* 200 and the user collection holds two accounts with that email.
C7_Witness ==
    \E p, q \in Procs :
        /\ p # q /\ Registered(p) /\ Registered(q)
        /\ lower(req[p].email) = lower(req[q].email)
        /\ resp[p].body[1].id # resp[q].body[1].id
        /\ Cardinality(AccountsWith(lower(req[p].email))) = 2
        /\ ~UniqueEmails

\* C8: a seeding round does not look at the collection again.  A listing
\* that read the collection empty inserts each demo post even when another
\* listing has inserted it in between, so two concurrent first listings
\* leave duplicate demo posts and a listing returns more than 3 entries.
C8_SeedingRace ==
    [][\A p \in Procs :
          (pc[p] = "seed" /\ i'[p] # i[p])
            => /\ Len(coll'["blogpost"]) = Len(blogpost) + 1
               /\ coll'["blogpost"][Len(blogpost) + 1].slug = demos[i[p]].slug
               /\ \A k \in DOMAIN blogpost : coll'["blogpost"][k] = blogpost[k]
      ]_vars

\* C8 witness: the collection was seeded twice and a listing returned more
\* than 3 entries.
C8_Witness ==
    /\ OnlyDemos
    /\ Len(blogpost) > 3
    /\ \E a, b \in DOMAIN blogpost : a # b /\ blogpost[a].slug = blogpost[b].slug
    /\ \E p \in Procs : ListDone(p) /\ Len(resp[p].body) > 3

Has(d, f) == f \in DOMAIN d

\* What the claim says the listing returns for stored document d.
EntryFor(d, e) ==
    /\ e.title = (IF Has(d, "title") THEN d["title"] ELSE "Untitled")
    /\ e.slug = (IF Has(d, "slug") THEN d["slug"] ELSE StrOid(d["_id"]))
    /\ e.content = (IF Has(d, "content") THEN d["content"] ELSE "")
    /\ IF Has(d, "excerpt") THEN e.excerpt = <<d["excerpt"]>> ELSE e.excerpt = None
    /\ IF Has(d, "author") THEN e.author = <<d["author"]>> ELSE e.author = None
    /\ IF Has(d, "tags") THEN e.tags = <<d["tags"]>> ELSE e.tags = None

\* C9: a finished listing holds, for the first documents of the collection
\* in order and at most 50 of them, one entry each: title or "Untitled",
\* slug or the document's identity string, content or "", and excerpt,
\* author, tags as stored or absent; and no step changes a stored document
\* (a fallback slug is not written back).
C9_Normalized ==
    /\ [](\A p \in Procs :
            ListDone(p) =>
               /\ Len(resp[p].body) <= BlogLimit
               /\ Len(resp[p].body) <= Len(blogpost)
               /\ \A k \in DOMAIN resp[p].body : EntryFor(blogpost[k], resp[p].body[k]))
    /\ [][\A k \in DOMAIN blogpost : coll'["blogpost"][k] = blogpost[k]]_vars

\* C9 witness: a listing over more than 50 documents, the first ones
\* missing a title, a slug, a content, the optional fields: 50 entries with
\* the defaults, and the second document still without a slug.
C9_Witness ==
    \E p \in Procs :
        /\ ListDone(p)
        /\ Len(blogpost) > BlogLimit
        /\ Len(resp[p].body) = BlogLimit
        /\ ~Has(blogpost[1], "title") /\ resp[p].body[1].title = "Untitled"
        /\ ~Has(blogpost[2], "slug") /\ resp[p].body[2].slug = "oid2"
        /\ ~Has(blogpost[3], "content") /\ resp[p].body[3].content = ""
        /\ ~Has(blogpost[4], "tags") /\ resp[p].body[4].tags = None
        /\ resp[p].body[6].tags = << <<"news">> >>

\* The slot whose handler took this step.
Moved(p) ==
    <<pc[p], req[p], resp[p], user[p], i[p]>> # <<pc'[p], req'[p], resp'[p], user'[p], i'[p]>>

Grew(c, n) ==
    IF n = 0 THEN coll'[c] = coll[c]
    ELSE /\ Len(coll'[c]) = Len(coll[c]) + n
         /\ SubSeq(coll'[c], 1, Len(coll[c])) = coll[c]

\* C10: a login, a register that ends without success (a duplicate among
\* them) and a listing of a non-empty collection leave the three
\* collections as they are; a register that succeeds adds one document to
\* user and nothing else, a contact that succeeds one document to
\* contactmessage and nothing else; and no step removes or changes a
\* stored document.
C10_Frame ==
    [][/\ \A c \in Collections : \E n \in 0..1 : Grew(c, n)
       /\ \A p \in Procs :
            Moved(p) =>
               /\ req'[p].op = "login" => coll' = coll
               /\ (req'[p].op = "register" /\ resp'[p].status # 200) => coll' = coll
               /\ (req'[p].op = "register" /\ resp'[p].status = 200)
                    => Grew("user", 1) /\ Grew("blogpost", 0) /\ Grew("contactmessage", 0)
               /\ (req'[p].op = "contact" /\ resp'[p].status # 200) => coll' = coll
               /\ (req'[p].op = "contact" /\ resp'[p].status = 200)
                    => Grew("contactmessage", 1) /\ Grew("user", 0) /\ Grew("blogpost", 0)
               /\ (req'[p].op = "list" /\ pc[p] = "idle" /\ Len(blogpost) > 0)
                    => coll' = coll /\ pc'[p] = "idle"
      ]_vars

\* C10 witness: after a successful register, a successful contact, a login
\* and a listing of a non-empty collection, user and contactmessage hold one
\* document each and blogpost what it held.
C10_Witness ==
    \E p, q \in Procs :
        /\ LoginDone(p) /\ resp[p].status = 200
        /\ ListDone(q)
        /\ Len(users) = 1 /\ Len(contactmessage) = 1
        /\ blogpost = ExistingPosts

====
